---- MODULE Spec2Model ----
(***************************************************************************)
(* Model of the binance-cross-pair-chart server: the synthetic-pair        *)
(* computation (BinanceAPI.getSyntheticPair), the TTL cache (CacheManager  *)
(* over NodeCache) and the two request handlers that orchestrate them      *)
(* (GET /api/klines, POST /api/refresh).                                   *)
(***************************************************************************)
EXTENDS Integers, Sequences, FiniteSets, TLC

(***************************************************************************)
(* Bounds of the model.                                                    *)
(***************************************************************************)
\* largest candle open time (in seconds) the provider hands out
MaxTime == 3
\* longest raw series handed to getSyntheticPair directly
MaxLen == 3

\* largest candle open time the provider hands out to the server
MaxServerTime == 1
\* requests the server accepts in one run
MaxRequests == 2
\* periods of the cache's expiry check the clock runs through
MaxTicks == 2

VARIABLES
    klinesA,          \* getSyntheticPair: the resolved series of coinA
    klinesB,          \* getSyntheticPair: the resolved series of coinB
    syntheticKlines,  \* getSyntheticPair: the returned series
    joined,           \* TRUE once getSyntheticPair has returned
    cache,            \* NodeCache's data: key -> [v: the series, t: its expiry]
    now,              \* Date.now(), in seconds
    started,          \* requests accepted so far; a request's id is its rank
    inflight,         \* handlers suspended in await: id -> locals and fetches
    response,         \* the response sent last, with the locals of its handler
    setLog,           \* the calls of cache.set so far, oldest first
    lastCall,         \* the call observed last at a component's interface
    selects,          \* app.js: the values of coinASelect, coinBSelect, intervalSelect
    currentData,      \* app.js: the response displayed
    indicators,       \* app.js: the indicator series the controller tracks
    chart,            \* chart.js: the candles shown and the line series added
    statPair,         \* app.js: the text of the statistics panel's pair field
    loadingOverlay,   \* app.js: the overlay, hidden or not
    refreshBtn,       \* app.js: the refresh button, disabled or not
    alertText,        \* app.js: the message of the last alert
    loads             \* app.js: the calls of loadChartData so far, oldest first

joinVars == <<klinesA, klinesB, syntheticKlines, joined>>
serverVars == <<cache, now, started, inflight, response, setLog>>
pageVars == <<selects, currentData, indicators, chart, statPair,
              loadingOverlay, refreshBtn, alertText, loads>>
vars == <<klinesA, klinesB, syntheticKlines, joined,
         cache, now, started, inflight, response, setLog, lastCall,
         selects, currentData, indicators, chart, statPair,
         loadingOverlay, refreshBtn, alertText, loads>>

(***************************************************************************)
(* Numbers.  A JavaScript quotient a / b is kept as the reduced fraction   *)
(* <<n, d>>; <<1, 0>> stands for Infinity and <<0, 0>> for NaN (rounding   *)
(* of the double is not modelled).                                         *)
(***************************************************************************)
RECURSIVE GCD(_, _)
GCD(a, b) == IF b = 0 THEN a ELSE GCD(b, a % b)

Div(a, b) ==
    IF b = 0
    THEN (IF a = 0 THEN <<0, 0>> ELSE <<1, 0>>)
    ELSE <<a \div GCD(a, b), b \div GCD(a, b)>>

(***************************************************************************)
(* The provider's candles.  getKlines turns one row of the response into   *)
(* {time, open, high, low, close, volume}; the row of a symbol at an open  *)
(* time is the market's, so it is a function of both.                      *)
(***************************************************************************)
Kline(symbol, t) ==
    IF symbol = "BTCUSDT"
    THEN [time |-> t, open |-> 12 * t, high |-> 12 * t + 6,
          low |-> 12 * t - 4, close |-> 12 * t + 2, volume |-> 5 * t]
    ELSE [time |-> t, open |-> 3 * t + 1, high |-> 3 * t + 4,
          low |-> 3 * t, close |-> 3 * t + 2, volume |-> 7 * t + 1]

Times == 1..MaxTime

\* every sequence over S of length at most n
SeqsUpTo(S, n) == UNION {[1..k -> S] : k \in 0..n}

\* the series of a symbol with the given open times, in that order
KlinesOf(symbol, ts) == [i \in 1..Len(ts) |-> Kline(symbol, ts[i])]

RawSeries(symbol) == {KlinesOf(symbol, ts) : ts \in SeqsUpTo(Times, MaxLen)}

(***************************************************************************)
(* BinanceAPI.getSyntheticPair, after both fetches have resolved.          *)
(***************************************************************************)
Null == [time |-> -1]

\* new Map(klinesB.map(k => [k.time, k])): the last bar of a time wins
KlinesBMapHas(kB, t) == \E j \in 1..Len(kB) : kB[j].time = t

KlinesBMapGet(kB, t) ==
    LET j == CHOOSE j \in 1..Len(kB) :
                 /\ kB[j].time = t
                 /\ \A l \in (j+1)..Len(kB) : kB[l].time # t
    IN  kB[j]

\* the callback of klinesA.map(...)
RatioBarBad(klineA, klineB) ==
    [time   |-> klineA.time,
     open   |-> Div(klineA.open, klineB.open),
     high   |-> Div(klineA.high, klineB.low),
     low    |-> Div(klineA.low, klineB.high),
     close  |-> Div(klineA.close, klineB.close),
     volume |-> klineB.volume]

RatioBar(klineA, klineB) ==
    [time   |-> klineA.time,
     open   |-> Div(klineA.open, klineB.open),
     high   |-> Div(klineA.high, klineB.high),
     low    |-> Div(klineA.low, klineB.low),
     close  |-> Div(klineA.close, klineB.close),
     volume |-> klineA.volume]

MapKlineA(klineA, kB) ==
    IF ~KlinesBMapHas(kB, klineA.time)
    THEN Null
    ELSE RatioBar(klineA, KlinesBMapGet(kB, klineA.time))

NotNull(k) == k # Null

\* a join driven by series B instead of series A
SyntheticPairByB(kA, kB) ==
    SelectSeq([i \in 1..Len(kB) |-> MapKlineA(kB[i], kA)], NotNull)

\* a join that keeps the unmatched bars of A (dividing by nothing)
SyntheticPairLeft(kA, kB) ==
    [i \in 1..Len(kA) |->
        IF KlinesBMapHas(kB, kA[i].time)
        THEN RatioBar(kA[i], KlinesBMapGet(kB, kA[i].time))
        ELSE kA[i]]

SyntheticPair(kA, kB) ==
    SelectSeq([i \in 1..Len(kA) |-> MapKlineA(kA[i], kB)], NotNull)

(***************************************************************************)
(* SpecJoin: getSyntheticPair on every pair of raw series within the       *)
(* bounds (any order of open times, repeated open times included).         *)
(***************************************************************************)
\* app.js as the module is loaded, before init() has run
PageUnloaded ==
    /\ selects = [coinA |-> "", coinB |-> "", interval |-> ""]
    /\ currentData = Null
    /\ indicators = <<>>
    /\ chart = [candles |-> <<>>, lines |-> {}]
    /\ statPair = ""
    /\ loadingOverlay = [hidden |-> TRUE]
    /\ refreshBtn = [disabled |-> FALSE]
    /\ alertText = ""
    /\ loads = <<>>

ServerIdle ==
    /\ cache = <<>>
    /\ now = 0
    /\ started = 0
    /\ inflight = <<>>
    /\ response = [rid |-> 0]
    /\ setLog = <<>>
    /\ lastCall = [op |-> "none"]

JoinInit ==
    /\ klinesA \in RawSeries("BTCUSDT")
    /\ klinesB \in RawSeries("ETHUSDT")
    /\ syntheticKlines = <<>>
    /\ joined = FALSE
    /\ ServerIdle
    /\ PageUnloaded

ComputeSyntheticPair ==
    /\ ~joined
    /\ syntheticKlines' = SyntheticPair(klinesA, klinesB)
    /\ joined' = TRUE
    /\ UNCHANGED <<klinesA, klinesB>>
    /\ UNCHANGED serverVars
    /\ UNCHANGED lastCall
    /\ UNCHANGED pageVars

JoinNext == ComputeSyntheticPair

SpecJoin == JoinInit /\ [][JoinNext]_vars

(***************************************************************************)
(* Vocabulary of the properties of getSyntheticPair.                       *)
(***************************************************************************)
TimesOf(s) == {s[i].time : i \in 1..Len(s)}

UniqueTimes(s) == \A i, j \in 1..Len(s) : s[i].time = s[j].time => i = j

StrictlyIncreasing(s) == \A i, j \in 1..Len(s) : i < j => s[i].time < s[j].time

CountAt(s, t) == Cardinality({i \in 1..Len(s) : s[i].time = t})

Min(a, b) == IF a <= b THEN a ELSE b

\* q is the quotient a / b of a non-zero b
IsQuotient(q, a, b) == q[2] # 0 /\ q[1] * b = q[2] * a

\* C1: with unique open times in A and in B, the result holds exactly one
\* bar for every open time that occurs in both series and no bar for an open
\* time that occurs in only one of them (inner join on time).
C1_InnerJoin ==
    (joined /\ UniqueTimes(klinesA) /\ UniqueTimes(klinesB)) =>
        /\ \A t \in TimesOf(klinesA) \cap TimesOf(klinesB) :
               CountAt(syntheticKlines, t) = 1
        /\ \A i \in 1..Len(syntheticKlines) :
               syntheticKlines[i].time \in TimesOf(klinesA) \cap TimesOf(klinesB)

\* the scenario of the specification: A = {1,2,3}, B = {1,3} gives the two
\* bars of 1 and 3, the bar of 2 being dropped
C1_Witness ==
    /\ joined
    /\ klinesA = KlinesOf("BTCUSDT", <<1, 2, 3>>)
    /\ klinesB = KlinesOf("ETHUSDT", <<1, 3>>)
    /\ Len(syntheticKlines) = 2
    /\ TimesOf(syntheticKlines) = {1, 3}

\* C2: every bar of the result has open, high, low and close equal to that
\* field of the A bar divided by the same field of the B bar of the same
\* open time, and the volume of the A bar.
C2_FieldRatios ==
    joined =>
        \A i \in 1..Len(syntheticKlines) :
            \E a \in 1..Len(klinesA), b \in 1..Len(klinesB) :
                /\ klinesA[a].time = syntheticKlines[i].time
                /\ klinesB[b].time = syntheticKlines[i].time
                /\ IsQuotient(syntheticKlines[i].open, klinesA[a].open, klinesB[b].open)
                /\ IsQuotient(syntheticKlines[i].high, klinesA[a].high, klinesB[b].high)
                /\ IsQuotient(syntheticKlines[i].low, klinesA[a].low, klinesB[b].low)
                /\ IsQuotient(syntheticKlines[i].close, klinesA[a].close, klinesB[b].close)
                /\ syntheticKlines[i].volume = klinesA[a].volume

\* the end-to-end scenario of the specification: three bars on either side
\* at the same open times; the four quotients of every bar differ
C2_Witness ==
    /\ joined
    /\ klinesA = KlinesOf("BTCUSDT", <<1, 2, 3>>)
    /\ klinesB = KlinesOf("ETHUSDT", <<1, 2, 3>>)
    /\ Len(syntheticKlines) = 3
    /\ \A i \in 1..3 :
           Cardinality({syntheticKlines[i].open, syntheticKlines[i].high,
                        syntheticKlines[i].low, syntheticKlines[i].close}) = 4

\* C3 as stated: the result is at most min(len A, len B) long, and that long
\* only when the open times of A and of B are the same set.
C3_Original ==
    joined =>
        /\ Len(syntheticKlines) <= Min(Len(klinesA), Len(klinesB))
        /\ (Len(syntheticKlines) = Min(Len(klinesA), Len(klinesB))
               => TimesOf(klinesA) = TimesOf(klinesB))

\* C3 (amended): with unique open times in A and in B, the result is at most
\* min(len A, len B) long, and that long exactly when the open times of one
\* series all occur in the other.
C3_LengthBound ==
    (joined /\ UniqueTimes(klinesA) /\ UniqueTimes(klinesB)) =>
        /\ Len(syntheticKlines) <= Min(Len(klinesA), Len(klinesB))
        /\ (Len(syntheticKlines) = Min(Len(klinesA), Len(klinesB))
               <=> \/ TimesOf(klinesA) \subseteq TimesOf(klinesB)
                   \/ TimesOf(klinesB) \subseteq TimesOf(klinesA))

\* the shorter series is covered by the longer one, whose open times differ
C3_Witness ==
    /\ joined
    /\ UniqueTimes(klinesA) /\ UniqueTimes(klinesB)
    /\ Len(klinesB) = 2 /\ Len(klinesA) = 3
    /\ TimesOf(klinesB) \subseteq TimesOf(klinesA)
    /\ Len(syntheticKlines) = 2

\* the position of the bar of open time t in series A
PosInA(t) == CHOOSE a \in 1..Len(klinesA) : klinesA[a].time = t

\* C4: when A is strictly increasing by time, so is the result, and its bars
\* follow one another as they do in A, whatever the order of B.
C4_OrderOfA ==
    (joined /\ StrictlyIncreasing(klinesA)) =>
        /\ StrictlyIncreasing(syntheticKlines)
        /\ \A i, j \in 1..Len(syntheticKlines) :
               i < j => PosInA(syntheticKlines[i].time) < PosInA(syntheticKlines[j].time)

\* A ascending, B descending, and all three bars in the result
C4_Witness ==
    /\ joined
    /\ klinesA = KlinesOf("BTCUSDT", <<1, 2, 3>>)
    /\ klinesB = KlinesOf("ETHUSDT", <<3, 2, 1>>)
    /\ Len(syntheticKlines) = 3

(***************************************************************************)
(* CacheManager (cache.js) over NodeCache({stdTTL: 300, checkperiod: 60,   *)
(* useClones: false}).                                                     *)
(***************************************************************************)
\* checkperiod: the period of NodeCache's expiry check, in seconds
CheckPeriod == 60

\* stands for a value that is not a number: the member of Object.prototype
\* a lookup in an object literal finds, and the NaN arithmetic on it gives
NotANumber == -1

\* the names every object literal inherits from Object.prototype
ObjectPrototypeNames ==
    {"constructor", "hasOwnProperty", "isPrototypeOf", "propertyIsEnumerable",
     "toLocaleString", "toString", "valueOf", "__proto__", "__defineGetter__",
     "__defineSetter__", "__lookupGetter__", "__lookupSetter__"}

\* a table that gives every label NodeCache's stdTTL
GetTTLFlat(interval) == 300

\* ttlMap[interval] || 300: the lookup follows the prototype chain, and what
\* it finds there is truthy
GetTTL(interval) ==
    CASE interval = "1m"  -> 60
      [] interval = "3m"  -> 180
      [] interval = "5m"  -> 300
      [] interval = "15m" -> 600
      [] interval = "30m" -> 900
      [] interval = "1h"  -> 1800
      [] interval = "2h"  -> 3600
      [] interval = "4h"  -> 7200
      [] interval = "6h"  -> 10800
      [] interval = "8h"  -> 14400
      [] interval = "12h" -> 21600
      [] interval = "1d"  -> 43200
      [] interval = "3d"  -> 86400
      [] interval = "1w"  -> 172800
      [] interval = "1M"  -> 259200
      [] interval \in ObjectPrototypeNames -> NotANumber
      [] OTHER            -> 300

\* a key built from the symbols in upper case
generateKeyUpperCase(coinA, coinB, interval) ==
    (IF coinA = "btc" THEN "BTC" ELSE coinA) \o "_" \o
    (IF coinB = "eth" THEN "ETH" ELSE coinB) \o "_" \o interval

generateKey(coinA, coinB, interval) == coinA \o "_" \o coinB \o "_" \o interval

Without(f, k) == [x \in DOMAIN f \ {k} |-> f[x]]

\* a livetime that takes NodeCache's stdTTL whatever the interval
LivetimeStd(t, ttl) == t + 300

\* NodeCache._wrap: livetime = now + ttl * 1000
Livetime(t, ttl) == IF ttl = NotANumber THEN NotANumber ELSE t + ttl

\* NodeCache._check: an entry is dropped once its expiry lies in the past
\* (no comparison with NaN is true)
Expired(e, t) == e.t # 0 /\ e.t # NotANumber /\ e.t < t

\* cache.get(coinA, coinB, interval) returns a value
CacheHolds(c, key, t) == key \in DOMAIN c /\ ~Expired(c[key], t)

\* a get that renews the lifetime of the entry it returns
CacheAfterGetTouch(c, key, t) ==
    IF key \in DOMAIN c /\ Expired(c[key], t) THEN Without(c, key)
    ELSE IF key \in DOMAIN c /\ c[key].t # NotANumber
         THEN [c EXCEPT ![key].t = @ + 60]
         ELSE c

\* what cache.get leaves behind: an expired entry it met is deleted
CacheAfterGet(c, key, t) ==
    IF key \in DOMAIN c /\ Expired(c[key], t) THEN Without(c, key) ELSE c

\* a set that leaves an entry that is already there alone
CacheSetKeepFirst(c, key, interval, data, t) ==
    IF key \in DOMAIN c
    THEN c
    ELSE [k \in DOMAIN c \cup {key} |->
             IF k = key THEN [v |-> data, t |-> Livetime(t, GetTTL(interval))]
             ELSE c[k]]

\* a set that stores a copy of data (as NodeCache does with useClones: true)
CacheSetClone(c, key, interval, data, t) ==
    [k \in DOMAIN c \cup {key} |->
        IF k = key
        THEN [v |-> [data EXCEPT !.ref = 0], t |-> Livetime(t, GetTTL(interval))]
        ELSE c[k]]

\* cache.set(coinA, coinB, interval, data); useClones: false keeps data itself
CacheSet(c, key, interval, data, t) ==
    [k \in DOMAIN c \cup {key} |->
        IF k = key THEN [v |-> data, t |-> Livetime(t, GetTTL(interval))]
        ELSE c[k]]

\* cache.delete(coinA, coinB, interval); a key that is not there is no error
CacheDelete(c, key) == Without(c, key)

\* NodeCache._checkData, run every checkperiod: drops every expired entry
CacheCheckData(c, t) == [k \in {x \in DOMAIN c : ~Expired(c[x], t)} |-> c[k]]

(***************************************************************************)
(* The provider, as getKlines sees it.                                     *)
(***************************************************************************)
Absent == "<absent>"

ToUpperCase(s) ==
    CASE s = "btc" -> "BTC"
      [] s = "eth" -> "ETH"
      [] OTHER     -> s

\* parseInt on the numerals the requests of this model carry
ParseInt(s) ==
    CASE s = "1"    -> 1
      [] s = "2"    -> 2
      [] s = "500"  -> 500
      [] s = "2000" -> 2000

\* the arguments of one getKlines call
FetchArgs(coin, interval, limit) ==
    [symbol |-> coin \o "USDT", interval |-> interval, limit |-> limit]

\* the two calls getSyntheticPair makes, both before it awaits
SyntheticPairFetches(coinA, coinB, interval, limit) ==
    [A |-> FetchArgs(coinA, interval, limit),
     B |-> FetchArgs(coinB, interval, limit)]

IsAscending(ts) == \A i, j \in 1..Len(ts) : i < j => ts[i] < ts[j]

\* what a klines call can resolve to: the candles of the symbol at ascending
\* open times, at most as many as the call asks for
AscendingTimes ==
    {x \in SeqsUpTo(1..MaxServerTime, MaxServerTime) : IsAscending(x)}

\* the params of the axios call getKlines makes: Binance max is 1000
KlinesParams(args) ==
    [symbol |-> args.symbol, interval |-> args.interval,
     limit |-> IF args.limit <= 1000 THEN args.limit ELSE 1000]

ProviderSeries(args) ==
    {KlinesOf(args.symbol, ts) :
        ts \in {x \in AscendingTimes : Len(x) <= KlinesParams(args).limit}}

\* what an axios call can fail with: the status of the response (0: none
\* came), the msg of its body ("": none) and the message of the error
AxiosFailures ==
    {[status |-> 429, msg |-> "", message |-> "Request failed with status code 429"],
     [status |-> 400, msg |-> "Invalid symbol.",
      message |-> "Request failed with status code 400"],
     [status |-> 0, msg |-> "", message |-> "timeout"]}

\* a getKlines that looks at the msg of the body before the status
GetKlinesErrorMsgFirst(f) ==
    IF f.msg # ""
    THEN "Binance API error: " \o f.msg
    ELSE IF f.status = 429
         THEN "Rate limit exceeded. Please try again later."
         ELSE "Failed to fetch klines: " \o f.message

\* the Error getKlines throws for a failed call
GetKlinesError(f) ==
    IF f.status = 429
    THEN "Rate limit exceeded. Please try again later."
    ELSE IF f.msg # ""
         THEN "Binance API error: " \o f.msg
         ELSE "Failed to fetch klines: " \o f.message

(***************************************************************************)
(* The handlers of GET /api/klines and POST /api/refresh.                  *)
(***************************************************************************)
IntervalOf(q) == IF q.interval = Absent THEN "1h" ELSE q.interval

LimitOf(q) == IF q.limit = Absent THEN 500 ELSE ParseInt(q.limit)

Falsy(x) == x = Absent \/ x = ""

\* a key that tells the bar counts of the read path apart
KeyOfWithLimit(q) ==
    IF "limit" \in DOMAIN q /\ q.limit # Absent
    THEN generateKey(q.coinA, q.coinB, IntervalOf(q)) \o "_" \o q.limit
    ELSE generateKey(q.coinA, q.coinB, IntervalOf(q))

KeyOf(q) == generateKey(q.coinA, q.coinB, IntervalOf(q))

BadRequest(msg) == [status |-> 400, success |-> FALSE, error |-> msg]

ServerError(msg) == [status |-> 500, success |-> FALSE, error |-> msg]

\* a body that answers an empty series with success, without statistics
KlinesBodyOfAny(klines) ==
    [status |-> 200, success |-> TRUE, count |-> Len(klines), data |-> klines]

\* "Calculate statistics" and res.json of GET /api/klines: klines[0] of an
\* empty series is undefined, and reading its close throws a TypeError
KlinesBody(klines) ==
    IF Len(klines) = 0
    THEN ServerError("Cannot read properties of undefined (reading 'close')")
    ELSE [status |-> 200, success |-> TRUE, count |-> Len(klines), data |-> klines]

RefreshBody(klines) ==
    [status |-> 200, success |-> TRUE, message |-> "Cache refreshed",
     count |-> Len(klines)]

\* a response that was sent without an engine call
Reply(route, q, hit, klines, body) ==
    [rid |-> started + 1, route |-> route, query |-> q, hit |-> hit,
     fetches |-> <<>>, got |-> <<>>, klines |-> klines, body |-> body]

\* the handler suspended in await binanceAPI.getSyntheticPair(...)
Suspended(route, q, limit) ==
    [route |-> route, query |-> q,
     fetches |-> SyntheticPairFetches(ToUpperCase(q.coinA), ToUpperCase(q.coinB),
                                      IntervalOf(q), limit),
     got |-> <<>>]

\* GET /api/klines up to its response or its await
GetKlines(q) ==
    /\ started < MaxRequests
    /\ started' = started + 1
    /\ IF Falsy(q.coinA) \/ Falsy(q.coinB)
       THEN /\ response' = Reply("klines", q, FALSE, <<>>,
                    BadRequest("Missing required parameters: coinA and coinB"))
            /\ UNCHANGED <<cache, inflight>>
       ELSE IF q.coinA = q.coinB
       THEN /\ response' = Reply("klines", q, FALSE, <<>>,
                    BadRequest("coinA and coinB must be different"))
            /\ UNCHANGED <<cache, inflight>>
       ELSE IF CacheHolds(cache, KeyOf(q), now)
       THEN /\ response' = Reply("klines", q, TRUE, cache[KeyOf(q)].v,
                                 KlinesBody(cache[KeyOf(q)].v))
            /\ UNCHANGED <<cache, inflight>>
       ELSE /\ cache' = CacheAfterGet(cache, KeyOf(q), now)
            /\ inflight' = [r \in DOMAIN inflight \cup {started + 1} |->
                               IF r = started + 1
                               THEN Suspended("klines", q, LimitOf(q))
                               ELSE inflight[r]]
            /\ UNCHANGED response
    /\ UNCHANGED <<now, setLog>>
    /\ UNCHANGED joinVars

\* a refresh that answers from the cache when the key is there
PostRefreshReuse(q) ==
    /\ started < MaxRequests
    /\ started' = started + 1
    /\ IF Falsy(q.coinA) \/ Falsy(q.coinB)
       THEN /\ response' = Reply("refresh", q, FALSE, <<>>,
                    BadRequest("Missing required parameters: coinA and coinB"))
            /\ UNCHANGED <<cache, inflight>>
       ELSE IF CacheHolds(cache, KeyOf(q), now)
       THEN /\ response' = Reply("refresh", q, TRUE, cache[KeyOf(q)].v,
                                 RefreshBody(cache[KeyOf(q)].v))
            /\ UNCHANGED <<cache, inflight>>
       ELSE /\ cache' = CacheDelete(cache, KeyOf(q))
            /\ inflight' = [r \in DOMAIN inflight \cup {started + 1} |->
                               IF r = started + 1
                               THEN Suspended("refresh", q, 500)
                               ELSE inflight[r]]
            /\ UNCHANGED response
    /\ UNCHANGED <<now, setLog>>
    /\ UNCHANGED joinVars

\* POST /api/refresh up to its response or its await
PostRefresh(q) ==
    /\ started < MaxRequests
    /\ started' = started + 1
    /\ IF Falsy(q.coinA) \/ Falsy(q.coinB)
       THEN /\ response' = Reply("refresh", q, FALSE, <<>>,
                    BadRequest("Missing required parameters: coinA and coinB"))
            /\ UNCHANGED <<cache, inflight>>
       ELSE /\ cache' = CacheDelete(cache, KeyOf(q))
            /\ inflight' = [r \in DOMAIN inflight \cup {started + 1} |->
                               IF r = started + 1
                               THEN Suspended("refresh", q, 500)
                               ELSE inflight[r]]
            /\ UNCHANGED response
    /\ UNCHANGED <<now, setLog>>
    /\ UNCHANGED joinVars

\* the handler r resumed with the series getSyntheticPair returned
Resume(r, got) ==
    LET h      == inflight[r]
        klines == SyntheticPair(got.A, got.B)
        key    == KeyOf(h.query)
    IN  /\ cache' = CacheSet(cache, key, IntervalOf(h.query), klines, now)
        /\ setLog' = Append(setLog, [rid |-> r, route |-> h.route, key |-> key])
        /\ response' = [rid |-> r, route |-> h.route, query |-> h.query,
                        hit |-> FALSE, fetches |-> h.fetches, got |-> got,
                        klines |-> klines,
                        body |-> IF h.route = "klines"
                                 THEN KlinesBody(klines)
                                 ELSE RefreshBody(klines)]
        /\ inflight' = Without(inflight, r)

\* a resolution that lets the handler run on at once, with no candle for
\* the call that is still out
FetchResolveFirst(r, side, ks) ==
    /\ r \in DOMAIN inflight
    /\ side \in DOMAIN inflight[r].fetches
    /\ side \notin DOMAIN inflight[r].got
    /\ Resume(r, [x \in DOMAIN inflight[r].fetches |->
                     IF x = side THEN ks
                     ELSE IF x \in DOMAIN inflight[r].got
                          THEN inflight[r].got[x] ELSE <<>>])
    /\ UNCHANGED <<now, started>>
    /\ UNCHANGED joinVars

\* one getKlines call of r resolves; with both resolved, Promise.all
\* resolves and the handler runs on to its response
FetchResolve(r, side, ks) ==
    /\ r \in DOMAIN inflight
    /\ side \in DOMAIN inflight[r].fetches
    /\ side \notin DOMAIN inflight[r].got
    /\ LET got == [x \in DOMAIN inflight[r].got \cup {side} |->
                      IF x = side THEN ks ELSE inflight[r].got[x]]
       IN  IF DOMAIN got = DOMAIN inflight[r].fetches
           THEN Resume(r, got)
           ELSE /\ inflight' = [inflight EXCEPT ![r].got = got]
                /\ UNCHANGED <<cache, response, setLog>>
    /\ UNCHANGED <<now, started>>
    /\ UNCHANGED joinVars

\* a failure that comes back wrapped in a message of the engine
FetchRejectWrapped(r, side, f) ==
    /\ r \in DOMAIN inflight
    /\ side \in DOMAIN inflight[r].fetches
    /\ side \notin DOMAIN inflight[r].got
    /\ response' = [rid |-> r, route |-> inflight[r].route,
                    query |-> inflight[r].query, hit |-> FALSE,
                    fetches |-> inflight[r].fetches, got |-> <<>>,
                    klines |-> <<>>,
                    body |-> ServerError("Failed to calculate synthetic pair: "
                                         \o GetKlinesError(f))]
    /\ inflight' = Without(inflight, r)
    /\ UNCHANGED <<cache, now, started, setLog>>
    /\ UNCHANGED joinVars

\* one getKlines call of r fails: Promise.all rejects at once, the error
\* passes through getSyntheticPair and the handler's catch answers 500
FetchReject(r, side, f) ==
    /\ r \in DOMAIN inflight
    /\ side \in DOMAIN inflight[r].fetches
    /\ side \notin DOMAIN inflight[r].got
    /\ response' = [rid |-> r, route |-> inflight[r].route,
                    query |-> inflight[r].query, hit |-> FALSE,
                    fetches |-> inflight[r].fetches, got |-> <<>>,
                    klines |-> <<>>, body |-> ServerError(GetKlinesError(f))]
    /\ inflight' = Without(inflight, r)
    /\ UNCHANGED <<cache, now, started, setLog>>
    /\ UNCHANGED joinVars

\* a check period passes
Tick ==
    /\ now + CheckPeriod <= MaxTicks * CheckPeriod
    /\ now' = now + CheckPeriod
    /\ UNCHANGED <<cache, started, inflight, response, setLog>>
    /\ UNCHANGED joinVars
    /\ UNCHANGED lastCall
    /\ UNCHANGED pageVars

\* NodeCache's periodic check finds expired entries
CheckData ==
    /\ \E k \in DOMAIN cache : Expired(cache[k], now)
    /\ cache' = CacheCheckData(cache, now)
    /\ UNCHANGED <<now, started, inflight, response, setLog>>
    /\ UNCHANGED joinVars
    /\ UNCHANGED lastCall
    /\ UNCHANGED pageVars

(***************************************************************************)
(* Spec: the read path and the refresh path of one pair, with a provider   *)
(* that answers every call with any series or throttles it.                *)
(***************************************************************************)
KlinesQueries ==
    {[coinA |-> "BTC", coinB |-> "ETH", interval |-> "1m", limit |-> Absent]}

RefreshBodies ==
    {[coinA |-> "BTC", coinB |-> "ETH", interval |-> "1m"]}

Throttled == {f \in AxiosFailures : f.status = 429}

Init ==
    /\ klinesA = <<>>
    /\ klinesB = <<>>
    /\ syntheticKlines = <<>>
    /\ joined = FALSE
    /\ ServerIdle
    /\ PageUnloaded

KlinesRequest ==
    /\ \E q \in KlinesQueries : GetKlines(q)
    /\ UNCHANGED lastCall
    /\ UNCHANGED pageVars

RefreshRequest ==
    /\ \E q \in RefreshBodies : PostRefresh(q)
    /\ UNCHANGED lastCall
    /\ UNCHANGED pageVars

ProviderResolves ==
    /\ \E r \in DOMAIN inflight, side \in {"A", "B"} :
           \E ks \in ProviderSeries(inflight[r].fetches[side]) :
               FetchResolve(r, side, ks)
    /\ UNCHANGED lastCall
    /\ UNCHANGED pageVars

ProviderThrottles ==
    /\ \E r \in DOMAIN inflight, side \in {"A", "B"}, f \in Throttled :
           FetchReject(r, side, f)
    /\ UNCHANGED lastCall
    /\ UNCHANGED pageVars

Next ==
    \/ KlinesRequest
    \/ RefreshRequest
    \/ ProviderResolves
    \/ ProviderThrottles
    \/ Tick
    \/ CheckData

Spec == Init /\ [][Next]_vars

(***************************************************************************)
(* SpecInvalid: the handlers under requests that lack a symbol, name one   *)
(* symbol twice or name an interval the provider does not know, next to a  *)
(* well-formed one; the provider answers with one candle or throttles.     *)
(***************************************************************************)
SupportedIntervals ==
    {"1m", "3m", "5m", "15m", "30m", "1h", "2h", "4h", "6h", "8h", "12h",
     "1d", "3d", "1w", "1M"}

AnyKlinesQueries ==
    {[coinA |-> "BTC", coinB |-> "ETH", interval |-> "1m", limit |-> Absent],
     [coinA |-> "BTC", coinB |-> "ETH", interval |-> "60s", limit |-> Absent],
     [coinA |-> "BTC", coinB |-> "BTC", interval |-> "1m", limit |-> Absent],
     [coinA |-> Absent, coinB |-> "ETH", interval |-> "1m", limit |-> Absent],
     [coinA |-> "BTC", coinB |-> "", interval |-> Absent, limit |-> Absent]}

AnyRefreshBodies ==
    {[coinA |-> "BTC", coinB |-> "ETH", interval |-> "1m"],
     [coinA |-> "BTC", coinB |-> "ETH", interval |-> "60s"],
     [coinA |-> "BTC", coinB |-> "BTC", interval |-> "1m"],
     [coinA |-> "BTC", coinB |-> Absent, interval |-> "1m"],
     [coinA |-> "", coinB |-> "ETH", interval |-> Absent]}

AnyKlinesRequest ==
    /\ \E q \in AnyKlinesQueries : GetKlines(q)
    /\ UNCHANGED lastCall
    /\ UNCHANGED pageVars

AnyRefreshRequest ==
    /\ \E q \in AnyRefreshBodies : PostRefresh(q)
    /\ UNCHANGED lastCall
    /\ UNCHANGED pageVars

ProviderResolvesOneCandle ==
    /\ \E r \in DOMAIN inflight, side \in {"A", "B"} :
           FetchResolve(r, side, KlinesOf(inflight[r].fetches[side].symbol, <<1>>))
    /\ UNCHANGED lastCall
    /\ UNCHANGED pageVars

InvalidNext ==
    \/ AnyKlinesRequest
    \/ AnyRefreshRequest
    \/ ProviderResolvesOneCandle
    \/ ProviderThrottles
    \/ Tick
    \/ CheckData

SpecInvalid == Init /\ [][InvalidNext]_vars

(***************************************************************************)
(* Vocabulary of the properties of the handlers.                           *)
(***************************************************************************)
BothSides == {"A", "B"}

\* this step accepts the request q on the route
Arrives(route, q) ==
    /\ started' = started + 1
    /\ IF started' \in DOMAIN inflight'
       THEN inflight'[started'].route = route /\ inflight'[started'].query = q
       ELSE /\ response'.rid = started'
            /\ response'.route = route
            /\ response'.query = q

\* this step answers the request started' without suspending it
AnsweredAtOnce == response'.rid = started' /\ inflight' = inflight

\* this step resumes the suspended handler r with the engine's series
Resumes(r) ==
    /\ r \in DOMAIN inflight
    /\ r \notin DOMAIN inflight'
    /\ response'.rid = r
    /\ DOMAIN response'.got = BothSides

\* the calls of one engine computation for the request q
EngineCalls(q, limit) ==
    SyntheticPairFetches(ToUpperCase(q.coinA), ToUpperCase(q.coinB),
                         IntervalOf(q), limit)

\* the id of the request that called cache.set for the key last
LastSetRid(key) ==
    LET S == {i \in 1..Len(setLog) : setLog[i].key = key}
    IN  IF S = {} THEN 0
        ELSE setLog[CHOOSE i \in S : \A j \in S : j <= i].rid

\* C5: when the two fetched series share no open time (either may be
\* empty), GET /api/klines answers with an empty series and no error.
C5_EmptyOverlapIsNoError ==
    (/\ response.rid > 0
     /\ response.route = "klines"
     /\ DOMAIN response.got = BothSides
     /\ TimesOf(response.got.A) \cap TimesOf(response.got.B) = {})
    => (response.body.status = 200 /\ response.body.data = <<>>)

\* C6: a GET /api/klines that finds an unexpired entry under its key answers
\* with exactly the cached series and calls the provider for nothing.
C6_HitReturnsCached ==
    [][\A q \in KlinesQueries :
          (Arrives("klines", q) /\ CacheHolds(cache, KeyOf(q), now)) =>
              /\ AnsweredAtOnce
              /\ DOMAIN response'.fetches = {}
              /\ response'.body.status = 200
              /\ response'.body.data = cache[KeyOf(q)].v]_vars

\* C7: a GET /api/klines that finds no entry under its key invokes the engine
\* once; when the engine succeeds its series is stored under the key with
\* TTL(interval) and the same series is the answer, so that a read that
\* follows before the expiry is a hit on it.
C7_MissComputesStoresReturns ==
    [][/\ \A q \in KlinesQueries :
             (Arrives("klines", q) /\ ~CacheHolds(cache, KeyOf(q), now)) =>
                 /\ started' \in DOMAIN inflight'
                 /\ inflight'[started'].fetches = EngineCalls(q, LimitOf(q))
       /\ \A r \in DOMAIN inflight :
             (inflight[r].route = "klines" /\ Resumes(r)) =>
                 LET q      == inflight[r].query
                     klines == SyntheticPair(response'.got.A, response'.got.B)
                 IN  /\ KeyOf(q) \in DOMAIN cache'
                     /\ cache'[KeyOf(q)] =
                            [v |-> klines, t |-> now + GetTTL(IntervalOf(q))]
                     /\ CacheHolds(cache', KeyOf(q), now')
                     /\ response'.body.status = 200
                     /\ response'.body.data = klines]_vars

\* C8: every refresh with both symbols is answered from a fresh engine
\* computation of two calls of its own, whether or not its key is cached and
\* even right after a set of that key; its answer and the entry it stores
\* come from the series it fetched itself, never from the cached value.
C8_RefreshAlwaysRecomputes ==
    /\ \A r \in DOMAIN inflight :
           inflight[r].route = "refresh" =>
               inflight[r].fetches = EngineCalls(inflight[r].query, 500)
    /\ (response.rid > 0 /\ response.route = "refresh") =>
           /\ ~response.hit
           /\ response.fetches = EngineCalls(response.query, 500)
           /\ response.body.status = 200 =>
                  /\ DOMAIN response.got = BothSides
                  /\ response.klines = SyntheticPair(response.got.A, response.got.B)
                  /\ response.body.count = Len(response.klines)
                  /\ (LastSetRid(KeyOf(response.query)) = response.rid
                      /\ KeyOf(response.query) \in DOMAIN cache)
                         => cache[KeyOf(response.query)].v = response.klines

\* a refresh arrived at the very instant a read had stored the key: the
\* entry is gone and the refresh waits for two calls of its own
C8_Witness ==
    /\ now = 0
    /\ setLog = <<[rid |-> 1, route |-> "klines", key |-> "BTC_ETH_1m"]>>
    /\ 2 \in DOMAIN inflight
    /\ inflight[2].route = "refresh"
    /\ KeyOf(inflight[2].query) = "BTC_ETH_1m"
    /\ "BTC_ETH_1m" \notin DOMAIN cache
    /\ DOMAIN inflight[2].fetches = BothSides
    /\ DOMAIN inflight[2].got = {}

\* C9: two GET /api/klines that missed the same key and are suspended
\* together each wait for two calls of their own (four in all), and each
\* that resumes stores its own series: the entry of a key is the series of
\* the request that called set last.
C9_LastWriterWins ==
    /\ \A r1, r2 \in DOMAIN inflight :
           (/\ r1 # r2
            /\ inflight[r1].route = "klines" /\ inflight[r2].route = "klines"
            /\ KeyOf(inflight[r1].query) = KeyOf(inflight[r2].query))
           => /\ inflight[r1].fetches =
                     EngineCalls(inflight[r1].query, LimitOf(inflight[r1].query))
              /\ inflight[r2].fetches =
                     EngineCalls(inflight[r2].query, LimitOf(inflight[r2].query))
    /\ \A k \in DOMAIN cache :
           (response.rid > 0 /\ LastSetRid(k) = response.rid)
               => cache[k].v = response.klines

\* request 2 missed the key while request 1 was suspended on it; 2 stored
\* its series first, 1 stored a different one last, and the entry is 1's
C9_Witness ==
    /\ setLog = <<[rid |-> 2, route |-> "klines", key |-> "BTC_ETH_1m"],
                  [rid |-> 1, route |-> "klines", key |-> "BTC_ETH_1m"]>>
    /\ response.rid = 1
    /\ response.body.status = 200
    /\ "BTC_ETH_1m" \in DOMAIN cache
    /\ cache["BTC_ETH_1m"].v = response.klines
    /\ Len(response.klines) = 1
    /\ DOMAIN response.fetches = BothSides

\* the request q is one the specification calls invalid input
InvalidInput(q) ==
    \/ Falsy(q.coinA)
    \/ Falsy(q.coinB)
    \/ q.coinA = q.coinB
    \/ IntervalOf(q) \notin SupportedIntervals

\* C10: a request on either route that lacks a symbol, names one symbol
\* twice or names an interval outside the supported ones is refused as
\* invalid before any call to the provider and without a change of the cache.
C10_InvalidInputRefused ==
    [][/\ \A q \in AnyKlinesQueries :
             (Arrives("klines", q) /\ InvalidInput(q)) =>
                 /\ AnsweredAtOnce
                 /\ response'.body.status = 400
                 /\ cache' = cache
       /\ \A q \in AnyRefreshBodies :
             (Arrives("refresh", q) /\ InvalidInput(q)) =>
                 /\ AnsweredAtOnce
                 /\ response'.body.status = 400
                 /\ cache' = cache]_vars

(***************************************************************************)
(* SpecCase: GET /api/klines under symbols written in either letter case;  *)
(* the provider answers every call with one candle.                        *)
(***************************************************************************)
CaseKlinesQueries ==
    {[coinA |-> "btc", coinB |-> "BTC", interval |-> "1m", limit |-> Absent],
     [coinA |-> "BTC", coinB |-> "BTC", interval |-> "1m", limit |-> Absent],
     [coinA |-> "btc", coinB |-> "eth", interval |-> "1m", limit |-> Absent],
     [coinA |-> "BTC", coinB |-> "ETH", interval |-> "1m", limit |-> Absent]}

CaseKlinesRequest ==
    /\ \E q \in CaseKlinesQueries : GetKlines(q)
    /\ UNCHANGED lastCall
    /\ UNCHANGED pageVars

CaseNext ==
    \/ CaseKlinesRequest
    \/ ProviderResolvesOneCandle
    \/ Tick
    \/ CheckData

SpecCase == Init /\ [][CaseNext]_vars

\* C11: a GET /api/klines whose two symbols are equal once both are put in
\* upper case ("btc" and "BTC") is refused as naming one symbol twice: it is
\* answered at once with 400, calls the provider for nothing and leaves the
\* cache alone.
C11_EqualIgnoringCase ==
    [][\A q \in CaseKlinesQueries :
          (Arrives("klines", q) /\ ToUpperCase(q.coinA) = ToUpperCase(q.coinB)) =>
              /\ AnsweredAtOnce
              /\ response'.body.status = 400
              /\ cache' = cache]_vars

(***************************************************************************)
(* SpecFail: both routes for one pair under a provider that answers a call *)
(* with one candle or fails it in any of the ways getKlines tells apart.   *)
(***************************************************************************)
\* the failures of AxiosFailures, a 429 whose body carries a msg (as
\* Binance's does) and a 5xx without one
ProviderFailures ==
    AxiosFailures \cup
    {[status |-> 429, msg |-> "Too much request weight used.",
      message |-> "Request failed with status code 429"],
     [status |-> 500, msg |-> "",
      message |-> "Request failed with status code 500"]}

\* a getKlines call of r fails with f; lastCall keeps the call, the failure
\* and the sides of r that had resolved before
ProviderFails ==
    \E r \in DOMAIN inflight, side \in {"A", "B"}, f \in ProviderFailures :
        /\ FetchReject(r, side, f)
        /\ lastCall' = [op |-> "getKlines", rid |-> r, side |-> side,
                        failure |-> f, settled |-> DOMAIN inflight[r].got]
        /\ UNCHANGED pageVars

FailNext ==
    \/ KlinesRequest
    \/ RefreshRequest
    \/ ProviderResolvesOneCandle
    \/ ProviderFails

SpecFail == Init /\ [][FailNext]_vars

\* this step ends the suspended handler r with an error
Fails(r) ==
    /\ r \in DOMAIN inflight
    /\ r \notin DOMAIN inflight'
    /\ response'.rid = r
    /\ DOMAIN response'.got = {}

\* C12: an engine computation issues exactly two getKlines calls, one for
\* each symbol, and never another (none is issued anew after a failure);
\* while it waits it changes nothing else; when a call fails the computation
\* ends with the very error getKlines threw, and nothing is stored.
C12_TwoFetchesErrorUnchanged ==
    [][/\ \A r \in DOMAIN inflight' \ DOMAIN inflight :
             /\ DOMAIN inflight'[r].fetches = BothSides
             /\ inflight'[r].fetches.A.symbol =
                    ToUpperCase(inflight'[r].query.coinA) \o "USDT"
             /\ inflight'[r].fetches.B.symbol =
                    ToUpperCase(inflight'[r].query.coinB) \o "USDT"
             /\ DOMAIN inflight' = DOMAIN inflight \cup {r}
       /\ \A r \in DOMAIN inflight \cap DOMAIN inflight' :
             /\ inflight'[r].fetches = inflight[r].fetches
             /\ inflight'[r].got # inflight[r].got =>
                    (cache' = cache /\ setLog' = setLog /\ response' = response)
       /\ \A r \in DOMAIN inflight :
             Fails(r) =>
                 /\ lastCall'.op = "getKlines"
                 /\ lastCall'.rid = r
                 /\ response'.body = ServerError(GetKlinesError(lastCall'.failure))
                 /\ DOMAIN inflight' = DOMAIN inflight \ {r}
                 /\ cache' = cache
                 /\ setLog' = setLog]_vars

\* a call for an unknown symbol failed and its error is the answer
C12_Witness ==
    /\ lastCall.op = "getKlines"
    /\ lastCall.failure.status = 400
    /\ response.rid = lastCall.rid
    /\ DOMAIN response.fetches = BothSides
    /\ response.body = ServerError("Binance API error: Invalid symbol.")
    /\ setLog = <<>>

\* C13: the engine issues both calls before either has an outcome; its
\* handler runs on with a series only in the step in which the second of the
\* two resolves, and a call that fails ends the computation with an error at
\* once, whether or not the other call had resolved.
C13_BothOrNothing ==
    [][/\ \A r \in DOMAIN inflight' \ DOMAIN inflight :
             /\ DOMAIN inflight'[r].fetches = BothSides
             /\ DOMAIN inflight'[r].got = {}
       /\ \A r \in DOMAIN inflight' :
             /\ DOMAIN inflight'[r].got \subseteq BothSides
             /\ DOMAIN inflight'[r].got # BothSides
       /\ \A r \in DOMAIN inflight :
             (r \notin DOMAIN inflight' /\ response'.rid = r) =>
                 \/ /\ DOMAIN response'.got = BothSides
                    /\ Cardinality(DOMAIN inflight[r].got) = 1
                    /\ \A s \in DOMAIN inflight[r].got :
                           response'.got[s] = inflight[r].got[s]
                    /\ lastCall' = lastCall
                 \/ /\ Fails(r)
                    /\ response'.body.status = 500
                    /\ setLog' = setLog
       /\ (lastCall' # lastCall /\ lastCall'.op = "getKlines") =>
             /\ Fails(lastCall'.rid)
             /\ lastCall'.settled = DOMAIN inflight[lastCall'.rid].got
             /\ response'.body.status = 500
             /\ cache' = cache]_vars

\* the call for coinB failed after the call for coinA had resolved, and the
\* request was answered with the error
C13_Witness ==
    /\ lastCall.op = "getKlines"
    /\ lastCall.side = "B"
    /\ lastCall.settled = {"A"}
    /\ response.rid = lastCall.rid
    /\ response.body.status = 500
    /\ DOMAIN response.got = {}

\* C14: a GET /api/klines calls the provider only after its cache check
\* found no entry; cache.set is called only by a handler whose engine
\* computation has just returned its series; and a GET /api/klines that is
\* answered with an error has stored nothing and leaves the cache as it was.
C14_CheckFetchStoreOrder ==
    [][/\ \A q \in KlinesQueries :
             (Arrives("klines", q) /\ started' \in DOMAIN inflight') =>
                 ~CacheHolds(cache, KeyOf(q), now)
       /\ setLog' # setLog =>
             \E r \in DOMAIN inflight :
                 /\ Resumes(r)
                 /\ setLog' = Append(setLog, [rid |-> r, route |-> inflight[r].route,
                                              key |-> KeyOf(inflight[r].query)])
       /\ \A r \in DOMAIN inflight :
             (/\ inflight[r].route = "klines"
              /\ r \notin DOMAIN inflight'
              /\ response'.rid = r
              /\ response'.body.status # 200) =>
                 (cache' = cache /\ setLog' = setLog)]_vars

(***************************************************************************)
(* The methods of CacheManager, called one at a time by a caller that      *)
(* holds the exported instance; started counts the calls.                  *)
(***************************************************************************)
\* the undefined NodeCache.get returns for a key it does not hold
Undefined == [undefined |-> TRUE]

\* the series a caller hands to set: two objects, told apart by ref; the
\* first is an empty series
CacheValues ==
    {[ref |-> 1, klines |-> <<>>],
     [ref |-> 2, klines |-> SyntheticPair(KlinesOf("BTCUSDT", <<1>>),
                                          KlinesOf("ETHUSDT", <<1>>))]}

\* what CacheManager.get returns
CacheGet(c, key, t) == IF CacheHolds(c, key, t) THEN c[key].v ELSE Undefined

CallGetTTL(interval) ==
    /\ started < MaxRequests
    /\ started' = started + 1
    /\ lastCall' = [op |-> "getTTL", interval |-> interval,
                    result |-> GetTTL(interval)]
    /\ UNCHANGED <<cache, now, inflight, response, setLog>>
    /\ UNCHANGED joinVars
    /\ UNCHANGED pageVars

CallSet(coinA, coinB, interval, data) ==
    /\ started < MaxRequests
    /\ started' = started + 1
    /\ cache' = CacheSet(cache, generateKey(coinA, coinB, interval), interval,
                         data, now)
    /\ lastCall' = [op |-> "set", coinA |-> coinA, coinB |-> coinB,
                    interval |-> interval, data |-> data, at |-> now,
                    result |-> TRUE]
    /\ UNCHANGED <<now, inflight, response, setLog>>
    /\ UNCHANGED joinVars
    /\ UNCHANGED pageVars

CallGet(coinA, coinB, interval) ==
    /\ started < MaxRequests
    /\ started' = started + 1
    /\ cache' = CacheAfterGet(cache, generateKey(coinA, coinB, interval), now)
    /\ lastCall' = [op |-> "get", coinA |-> coinA, coinB |-> coinB,
                    interval |-> interval, at |-> now,
                    result |-> CacheGet(cache, generateKey(coinA, coinB, interval),
                                        now)]
    /\ UNCHANGED <<now, inflight, response, setLog>>
    /\ UNCHANGED joinVars
    /\ UNCHANGED pageVars

CallDelete(coinA, coinB, interval) ==
    /\ started < MaxRequests
    /\ started' = started + 1
    /\ cache' = CacheDelete(cache, generateKey(coinA, coinB, interval))
    /\ lastCall' = [op |-> "delete", coinA |-> coinA, coinB |-> coinB,
                    interval |-> interval, at |-> now,
                    result |-> IF generateKey(coinA, coinB, interval)
                                      \in DOMAIN cache THEN 1 ELSE 0]
    /\ UNCHANGED <<now, inflight, response, setLog>>
    /\ UNCHANGED joinVars
    /\ UNCHANGED pageVars

CallFlush ==
    /\ started < MaxRequests
    /\ started' = started + 1
    /\ cache' = <<>>
    /\ lastCall' = [op |-> "flush", at |-> now]
    /\ UNCHANGED <<now, inflight, response, setLog>>
    /\ UNCHANGED joinVars
    /\ UNCHANGED pageVars

(***************************************************************************)
(* SpecTTL: getTTL, and set with it, on the labels of the table and on     *)
(* labels outside it.                                                      *)
(***************************************************************************)
TTLLabels ==
    SupportedIntervals \cup {"60s", "", "1H", "constructor", "toString"}

TTLGetTTL == \E interval \in TTLLabels : CallGetTTL(interval)

TTLSet ==
    \E interval \in TTLLabels, data \in {d \in CacheValues : d.ref = 2} :
        CallSet("BTC", "ETH", interval, data)

TTLNext ==
    \/ TTLGetTTL
    \/ TTLSet
    \/ Tick
    \/ CheckData

SpecTTL == Init /\ [][TTLNext]_vars

\* C15: getTTL gives each of the 15 labels of the table a number of seconds
\* from 60 to 259200, 60 for "1m" and 259200 for "1M", and gives every label
\* outside the table 300.
C15_TTLTable ==
    lastCall.op = "getTTL" =>
        /\ lastCall.interval \in SupportedIntervals =>
               (lastCall.result >= 60 /\ lastCall.result <= 259200)
        /\ lastCall.interval = "1m" => lastCall.result = 60
        /\ lastCall.interval = "1M" => lastCall.result = 259200
        /\ lastCall.interval \notin SupportedIntervals => lastCall.result = 300

(***************************************************************************)
(* SpecCache: set, get, delete and flush on a few tuples, with the clock   *)
(* and NodeCache's periodic check.                                         *)
(***************************************************************************)
CacheTuples ==
    {[coinA |-> "BTC", coinB |-> "ETH", interval |-> "1m"],
     [coinA |-> "ETH", coinB |-> "BTC", interval |-> "1m"],
     [coinA |-> "BTC", coinB |-> "ETH", interval |-> "constructor"],
     [coinA |-> "BTC_ETH", coinB |-> "BTC", interval |-> "1m"],
     [coinA |-> "BTC", coinB |-> "ETH_BTC", interval |-> "1m"]}

CacheSetCall ==
    \E x \in CacheTuples, data \in CacheValues :
        CallSet(x.coinA, x.coinB, x.interval, data)

CacheGetCall == \E x \in CacheTuples : CallGet(x.coinA, x.coinB, x.interval)

CacheDeleteCall == \E x \in CacheTuples : CallDelete(x.coinA, x.coinB, x.interval)

CacheNext ==
    \/ CacheSetCall
    \/ CacheGetCall
    \/ CacheDeleteCall
    \/ CallFlush
    \/ Tick
    \/ CheckData

SpecCache == Init /\ [][CacheNext]_vars

\* the key of the tuple of a call
CallKey(call) == generateKey(call.coinA, call.coinB, call.interval)

\* this step is a call of CacheManager
Calls(op) == started' = started + 1 /\ lastCall'.op = op

C17_GetAfterSet ==
    [][(/\ lastCall.op = "set"
        /\ lastCall.at = now
        /\ Calls("get")
        /\ lastCall'.coinA = lastCall.coinA
        /\ lastCall'.coinB = lastCall.coinB
        /\ lastCall'.interval = lastCall.interval)
       => (lastCall'.result = lastCall.data /\ lastCall'.result.ref = lastCall.data.ref)]_vars

\* the empty series was set at time 0 and the get that followed returned it
C17_Witness ==
    /\ started = 2
    /\ lastCall.op = "get"
    /\ lastCall.at = 0
    /\ lastCall.result = [ref |-> 1, klines |-> <<>>]
    /\ CallKey(lastCall) \in DOMAIN cache
    /\ cache[CallKey(lastCall)].v = lastCall.result

\* C18: the key tells tuples apart: when the only call so far was a set, a
\* get returns a value only if its tuple (coinA, coinB, interval) is the
\* tuple of that set.
C18_KeyOfWholeTuple ==
    [][(/\ started = 1
        /\ lastCall.op = "set"
        /\ Calls("get")
        /\ lastCall'.result # Undefined)
       => (/\ lastCall'.coinA = lastCall.coinA
           /\ lastCall'.coinB = lastCall.coinB
           /\ lastCall'.interval = lastCall.interval)]_vars

\* the GET /api/klines query for the tuple of the refresh body q
ReadQuery(q) ==
    [coinA |-> q.coinA, coinB |-> q.coinB, interval |-> q.interval,
     limit |-> Absent]

\* C19: a refresh that names both symbols does what GET /api/klines does for
\* the same tuple on the cache without the tuple's key: where the read is
\* refused the refresh is refused, and otherwise it waits for the same two
\* calls with the same arguments, the limit included, and stores its series
\* as the read would, under the same key with the same expiry.
C19_RefreshIsDeleteThenMiss ==
    [][/\ \A q \in AnyRefreshBodies :
             (Arrives("refresh", q) /\ ~Falsy(q.coinA) /\ ~Falsy(q.coinB)) =>
                 IF ReadQuery(q).coinA = ReadQuery(q).coinB
                 THEN /\ AnsweredAtOnce
                      /\ response'.body.status = 400
                 ELSE /\ started' \in DOMAIN inflight'
                      /\ inflight'[started'].fetches =
                             EngineCalls(ReadQuery(q), LimitOf(ReadQuery(q)))
                      /\ cache' = CacheAfterGet(CacheDelete(cache, KeyOf(q)),
                                                KeyOf(ReadQuery(q)), now)
       /\ \A r \in DOMAIN inflight :
             (inflight[r].route = "refresh" /\ Resumes(r)) =>
                 cache' = CacheSet(cache, KeyOf(ReadQuery(inflight[r].query)),
                                   IntervalOf(ReadQuery(inflight[r].query)),
                                   SyntheticPair(response'.got.A, response'.got.B),
                                   now)]_vars

\* the kinds of error a failed call is told apart into
ErrorKinds == {"RateLimited", "ProviderError", "UpstreamFailure"}

\* the kind the failure f of a call belongs to
KindOfFailure(f) ==
    IF f.status = 429 THEN "RateLimited"
    ELSE IF f.msg # "" THEN "ProviderError"
    ELSE "UpstreamFailure"

\* the error messages by which a caller recognises a kind
MessagesOf(kind) ==
    CASE kind = "RateLimited" ->
             {"Rate limit exceeded. Please try again later."}
      [] kind = "ProviderError" ->
             {"Binance API error: " \o f.msg :
                 f \in {g \in ProviderFailures : g.msg # ""}}
      [] kind = "UpstreamFailure" ->
             {"Failed to fetch klines: " \o f.message : f \in ProviderFailures}

\* C20: the error that answers a request whose call failed is recognised as
\* exactly one kind: rate-limited for a 429, with or without a msg in its
\* body; otherwise the provider's error when the body carries a msg;
\* otherwise the generic failure to fetch.
C20_ErrorKinds ==
    (lastCall.op = "getKlines" /\ response.rid = lastCall.rid) =>
        /\ response.body.status = 500
        /\ {k \in ErrorKinds : response.body.error \in MessagesOf(k)}
               = {KindOfFailure(lastCall.failure)}

\* a 429 whose body carries a msg was answered as rate-limited
C20_Witness ==
    /\ lastCall.op = "getKlines"
    /\ lastCall.failure.status = 429
    /\ lastCall.failure.msg # ""
    /\ response.rid = lastCall.rid
    /\ response.body.error = "Rate limit exceeded. Please try again later."

(***************************************************************************)
(* The page controller (app.js).  A call of loadChartData runs to its      *)
(* first await in the step that starts it and is then resumed by the       *)
(* settlement of the request it awaits; loads keeps every call with the    *)
(* selection it read and its position.                                     *)
(***************************************************************************)
MaxLoads == 2

IndicatorMinBars == 50

UICoins == {"BTC", "ETH"}

UIIntervals == {"1m", "1h"}

\* the bar counts of the responses: below and at addDefaultIndicators' threshold
BarCounts == {IndicatorMinBars - 1, IndicatorMinBars}

OptionsOf(field) == IF field = "interval" THEN UIIntervals ELSE UICoins

Range(seq) == {seq[i] : i \in DOMAIN seq}

\* the body of a successful klines response to the request of a load
KlinesResponse(load, count) ==
    [success |-> TRUE, pair |-> load.coinA \o "/" \o load.coinB,
     interval |-> load.interval, count |-> count]

\* the two series addDefaultIndicators adds for the load numbered id
DefaultIndicators(id, count) ==
    IF count < IndicatorMinBars THEN <<>>
    ELSE <<[title |-> "MA20", load |-> id], [title |-> "EMA50", load |-> id]>>

Awaiting(load) == load.pc \in {"refreshCache", "fetchKlines"}

\* loadChartData up to its first await, on the selection sel
LoadChartData(sel, forceRefresh) ==
    LET call == [coinA |-> sel.coinA, coinB |-> sel.coinB,
                 interval |-> sel.interval, forceRefresh |-> forceRefresh] IN
    IF sel.coinA = "" \/ sel.coinB = "" THEN
        /\ alertText' = "Please select both coins"
        /\ loads' = Append(loads, call @@ [pc |-> "returned"])
        /\ UNCHANGED <<loadingOverlay, indicators, chart>>
    ELSE IF sel.coinA = sel.coinB THEN
        /\ alertText' = "Please select different coins"
        /\ loads' = Append(loads, call @@ [pc |-> "returned"])
        /\ UNCHANGED <<loadingOverlay, indicators, chart>>
    ELSE
        /\ loadingOverlay' = [hidden |-> FALSE]
        /\ chart' = [chart EXCEPT !.lines = @ \ Range(indicators)]
        /\ indicators' = <<>>
        /\ loads' = Append(loads, call @@
                       [pc |-> IF forceRefresh THEN "refreshCache"
                               ELSE "fetchKlines"])
        /\ UNCHANGED alertText

\* the catch and finally blocks of loadChartData, and the rest of the click
\* handler when the load is the one it awaits
LoadFails(id, message) ==
    /\ alertText' = "Failed to load data: " \o message
    /\ loadingOverlay' = [hidden |-> TRUE]
    /\ loads' = [loads EXCEPT ![id].pc = "failed"]
    /\ refreshBtn' = IF loads[id].forceRefresh THEN [disabled |-> FALSE]
                     ELSE refreshBtn
    /\ UNCHANGED <<selects, currentData, indicators, chart, statPair>>

\* the page once init() has completed: defaults selected, the first load
\* ended (displayed, or failed with an alert), listeners installed
PageReady ==
    /\ \E interval \in UIIntervals :
          selects = [coinA |-> "BTC", coinB |-> "ETH", interval |-> interval]
    /\ loads = <<>>
    /\ loadingOverlay = [hidden |-> TRUE]
    /\ refreshBtn = [disabled |-> FALSE]
    /\ \/ /\ \E count \in BarCounts :
                /\ currentData = KlinesResponse(selects, count)
                /\ indicators = DefaultIndicators(0, count)
          /\ chart = [candles |-> currentData, lines |-> Range(indicators)]
          /\ statPair = currentData.pair
          /\ alertText = ""
       \/ /\ currentData = Null
          /\ indicators = <<>>
          /\ chart = [candles |-> <<>>, lines |-> {}]
          /\ statPair = ""
          /\ alertText = "Failed to load data: Internal server error"

UIInit ==
    /\ klinesA = <<>>
    /\ klinesB = <<>>
    /\ syntheticKlines = <<>>
    /\ joined = FALSE
    /\ ServerIdle
    /\ PageReady

\* a change event of one of the three selects
SelectChange ==
    \E field \in {"coinA", "coinB", "interval"} :
      \E value \in OptionsOf(field) \ {selects[field]} :
        /\ Len(loads) < MaxLoads
        /\ selects' = [selects EXCEPT ![field] = value]
        /\ LoadChartData(selects', FALSE)
        /\ UNCHANGED <<currentData, statPair, refreshBtn>>
        /\ UNCHANGED <<joinVars, serverVars, lastCall>>

\* a click of the refresh button, from the pointer or from the R key (a
\* disabled button dispatches no click)
RefreshClick ==
    /\ Len(loads) < MaxLoads
    /\ ~refreshBtn.disabled
    /\ LoadChartData(selects, TRUE)
    /\ refreshBtn' = [disabled |-> Awaiting(loads'[Len(loads')])]
    /\ UNCHANGED <<selects, currentData, statPair>>
    /\ UNCHANGED <<joinVars, serverVars, lastCall>>

\* POST /api/refresh answers a load with success
RefreshCacheResolves ==
    \E id \in DOMAIN loads :
        /\ loads[id].pc = "refreshCache"
        /\ loads' = [loads EXCEPT ![id].pc = "fetchKlines"]
        /\ UNCHANGED <<selects, currentData, indicators, chart, statPair,
                       loadingOverlay, refreshBtn, alertText>>
        /\ UNCHANGED <<joinVars, serverVars, lastCall>>

\* POST /api/refresh fails
RefreshCacheRejects ==
    \E id \in DOMAIN loads :
        /\ loads[id].pc = "refreshCache"
        /\ LoadFails(id, "Internal server error")
        /\ UNCHANGED <<joinVars, serverVars, lastCall>>

\* GET /api/klines answers a load with count bars
FetchKlinesResolves ==
    \E id \in DOMAIN loads, count \in BarCounts :
        /\ loads[id].pc = "fetchKlines"
        /\ currentData' = KlinesResponse(loads[id], count)
        /\ indicators' = indicators \o DefaultIndicators(id, count)
        /\ chart' = [candles |-> currentData',
                     lines |-> chart.lines \cup
                                   Range(DefaultIndicators(id, count))]
        /\ statPair' = currentData'.pair
        /\ loadingOverlay' = [hidden |-> TRUE]
        /\ loads' = [loads EXCEPT ![id].pc = "done"]
        /\ refreshBtn' = IF loads[id].forceRefresh THEN [disabled |-> FALSE]
                         ELSE refreshBtn
        /\ UNCHANGED <<selects, alertText>>
        /\ UNCHANGED <<joinVars, serverVars, lastCall>>

\* GET /api/klines fails
FetchKlinesRejects ==
    \E id \in DOMAIN loads :
        /\ loads[id].pc = "fetchKlines"
        /\ LoadFails(id, "Internal server error")
        /\ UNCHANGED <<joinVars, serverVars, lastCall>>

UINext ==
    \/ SelectChange
    \/ RefreshClick
    \/ RefreshCacheResolves
    \/ RefreshCacheRejects
    \/ FetchKlinesResolves
    \/ FetchKlinesRejects

SpecUI == UIInit /\ [][UINext]_vars

\* a load ends in this step
LoadEnds(id) ==
    /\ id \in DOMAIN loads
    /\ Awaiting(loads[id])
    /\ ~Awaiting(loads'[id])

\* C21: when a load ends with a response and no other load is in progress,
\* the chart carries exactly the MA20 and EMA50 series of that response if it
\* has 50 bars or more and no line series if it has fewer; no series of an
\* earlier load is left on the chart.
C21_IndicatorsOfLastLoad ==
    [][\A id \in DOMAIN loads :
          (/\ LoadEnds(id)
           /\ loads'[id].pc = "done"
           /\ \A other \in DOMAIN loads' : ~Awaiting(loads'[other]))
          => /\ chart'.lines = Range(DefaultIndicators(id, currentData'.count))
             /\ Cardinality(chart'.lines) =
                    IF currentData'.count >= IndicatorMinBars THEN 2 ELSE 0]_vars

(***************************************************************************)
(* SpecEmpty: the read path and the refresh path of one pair, with a       *)
(* provider that answers a call with no candle or with one candle.         *)
(***************************************************************************)
ProviderResolvesNothing ==
    /\ \E r \in DOMAIN inflight, side \in {"A", "B"} : FetchResolve(r, side, <<>>)
    /\ UNCHANGED lastCall
    /\ UNCHANGED pageVars

EmptyNext ==
    \/ KlinesRequest
    \/ RefreshRequest
    \/ ProviderResolvesOneCandle
    \/ ProviderResolvesNothing
    \/ Tick
    \/ CheckData

SpecEmpty == Init /\ [][EmptyNext]_vars

\* the cache holds the empty series under key, unexpired
HoldsEmpty(key) == CacheHolds(cache, key, now) /\ cache[key].v = <<>>

\* the body GET /api/klines sends for an empty series
EmptySeriesError ==
    ServerError("Cannot read properties of undefined (reading 'close')")

MaxCandles == 2

LimitKlinesQueries ==
    {[coinA |-> "BTC", coinB |-> "ETH", interval |-> "1m", limit |-> l] :
        l \in {"1", "2", Absent}}

\* the latest candles of the symbol, at most limit of them
LatestCandles(args) ==
    LET limit == KlinesParams(args).limit
        first == IF limit >= MaxCandles THEN 1 ELSE MaxCandles - limit + 1
    IN  KlinesOf(args.symbol, [i \in 1..(MaxCandles - first + 1) |-> first + i - 1])

LimitKlinesRequest ==
    /\ \E q \in LimitKlinesQueries : GetKlines(q)
    /\ UNCHANGED lastCall
    /\ UNCHANGED pageVars

ProviderResolvesLatest ==
    /\ \E r \in DOMAIN inflight, side \in {"A", "B"} :
           FetchResolve(r, side, LatestCandles(inflight[r].fetches[side]))
    /\ UNCHANGED lastCall
    /\ UNCHANGED pageVars

LimitNext ==
    \/ LimitKlinesRequest
    \/ RefreshRequest
    \/ ProviderResolvesLatest
    \/ Tick
    \/ CheckData

SpecLimit == Init /\ [][LimitNext]_vars

\* the bar count the handler of a request passes to the engine
CountOf(route, q) == IF route = "klines" THEN LimitOf(q) ELSE 500

\* what a computation for the request gives when nothing is cached
FreshSeries(route, q) ==
    LET calls == EngineCalls(q, CountOf(route, q))
    IN  SyntheticPair(LatestCandles(calls.A), LatestCandles(calls.B))

\* C23: the bar count is no part of the cache key: reads that differ only in
\* the count share one key; a computation stores the series it got for the
\* count of its own request (500 for a refresh), and a hit returns the
\* stored series whatever count the hitting read asks for.
C23_CountNotInKey ==
    [][/\ \A q1, q2 \in LimitKlinesQueries : KeyOf(q1) = KeyOf(q2)
       /\ \A q \in RefreshBodies, q1 \in LimitKlinesQueries : KeyOf(q) = KeyOf(q1)
       /\ \A r \in DOMAIN inflight :
             Resumes(r)
             => /\ \A side \in BothSides :
                      response'.fetches[side].limit =
                          CountOf(response'.route, response'.query)
                /\ response'.klines = FreshSeries(response'.route, response'.query)
                /\ cache'[KeyOf(response'.query)].v = response'.klines
       /\ \A q \in LimitKlinesQueries :
             (Arrives("klines", q) /\ CacheHolds(cache, KeyOf(q), now))
             => /\ AnsweredAtOnce
                /\ response'.hit
                /\ response'.fetches = <<>>
                /\ response'.klines = cache[KeyOf(q)].v
                /\ response'.body = KlinesBody(cache[KeyOf(q)].v)]_vars

\* a read that asks for two bars was a hit on the one-bar series an earlier
\* read had stored, where a fresh computation gives two bars
C23_Witness ==
    /\ response.rid > 0
    /\ response.route = "klines"
    /\ response.hit
    /\ response.query.limit = "2"
    /\ Len(response.klines) = 1
    /\ response.body.count = 1
    /\ Len(FreshSeries("klines", response.query)) = 2

(***************************************************************************)
(* SpecKeys: the read path and the refresh path of one pair written in     *)
(* lower case and in upper case; the provider answers a call with one      *)
(* candle or throttles it.                                                 *)
(***************************************************************************)
LowerCase == [coinA |-> "btc", coinB |-> "eth", interval |-> "1m"]

UpperCase == [coinA |-> "BTC", coinB |-> "ETH", interval |-> "1m"]

KeysKlinesQueries == {q @@ [limit |-> Absent] : q \in {LowerCase, UpperCase}}

KeysRefreshBodies == {LowerCase, UpperCase}

KeysKlinesRequest ==
    /\ \E q \in KeysKlinesQueries : GetKlines(q)
    /\ UNCHANGED lastCall
    /\ UNCHANGED pageVars

KeysRefreshRequest ==
    /\ \E q \in KeysRefreshBodies : PostRefresh(q)
    /\ UNCHANGED lastCall
    /\ UNCHANGED pageVars

KeysNext ==
    \/ KeysKlinesRequest
    \/ KeysRefreshRequest
    \/ ProviderResolvesOneCandle
    \/ ProviderThrottles
    \/ Tick
    \/ CheckData

SpecKeys == Init /\ [][KeysNext]_vars

\* the same request with its symbols in the other case
OtherCase(q) ==
    IF q.coinA = "btc"
    THEN [q EXCEPT !.coinA = "BTC", !.coinB = "ETH"]
    ELSE [q EXCEPT !.coinA = "btc", !.coinB = "eth"]

\* the entries of all keys but key are the same before and after the step
OtherKeysUnchanged(key) ==
    /\ DOMAIN cache \ {key} = DOMAIN cache' \ {key}
    /\ \A k \in DOMAIN cache \ {key} : cache'[k] = cache[k]

\* C24: two requests that differ only in the case of their symbols issue
\* the same fetches and use different cache keys: a read is a hit exactly
\* when its own key is held, whatever is held under the other's key, and a
\* refresh of one removes its own entry and leaves the other's as it is.
C24_CaseSeparatesEntries ==
    [][/\ \A q \in KeysKlinesQueries \cup KeysRefreshBodies :
             /\ EngineCalls(q, 500) = EngineCalls(OtherCase(q), 500)
             /\ KeyOf(q) # KeyOf(OtherCase(q))
       /\ \A q \in KeysKlinesQueries :
             Arrives("klines", q)
             => /\ (AnsweredAtOnce /\ response'.hit)
                       <=> CacheHolds(cache, KeyOf(q), now)
                /\ AnsweredAtOnce => response'.klines = cache[KeyOf(q)].v
                /\ ~AnsweredAtOnce =>
                       inflight'[started'].fetches = EngineCalls(UpperCase, 500)
                /\ OtherKeysUnchanged(KeyOf(q))
       /\ \A q \in KeysRefreshBodies :
             Arrives("refresh", q)
             => /\ KeyOf(q) \notin DOMAIN cache'
                /\ inflight'[started'].fetches = EngineCalls(UpperCase, 500)
                /\ OtherKeysUnchanged(KeyOf(q))
       /\ \A r \in DOMAIN inflight :
             Resumes(r) => OtherKeysUnchanged(KeyOf(response'.query))]_vars

\* a read in lower case waits for its fetches, a miss, while the series of
\* the same pair in upper case is held
C24_Witness ==
    \E r \in DOMAIN inflight :
        /\ inflight[r].route = "klines"
        /\ inflight[r].query.coinA = "btc"
        /\ inflight[r].fetches = EngineCalls(UpperCase, 500)
        /\ CacheHolds(cache, KeyOf(UpperCase), now)
        /\ KeyOf(inflight[r].query) \notin DOMAIN cache

\* the response sent last is the 500 of a refresh whose computation failed
FailedRefresh ==
    /\ response.rid > 0
    /\ response.route = "refresh"
    /\ response.body.status = 500
    /\ response.got = <<>>

\* C25 as stated: when a refresh fails its key is absent from the cache.
C25_Original ==
    [][\A r \in DOMAIN inflight :
          (Fails(r) /\ response'.route = "refresh")
          => KeyOf(response'.query) \notin DOMAIN cache']_vars

\* C25: a refresh deletes its key before it fetches and leaves every other
\* key as it is; when its computation fails it stores and restores nothing,
\* so all entries are as they were just before the failure, and its key is
\* absent unless another request has stored it since the delete.
C25_FailedRefreshRestoresNothing ==
    [][/\ \A q \in KeysRefreshBodies :
             Arrives("refresh", q)
             => /\ ~AnsweredAtOnce
                /\ KeyOf(q) \notin DOMAIN cache'
                /\ OtherKeysUnchanged(KeyOf(q))
       /\ \A r \in DOMAIN inflight :
             (Fails(r) /\ response'.route = "refresh")
             => /\ cache' = cache
                /\ setLog' = setLog
                /\ response'.body.status = 500
                /\ KeyOf(response'.query) \in DOMAIN cache'
                      => LastSetRid(KeyOf(response'.query)) \notin {0, r}]_vars

\* a refresh of a key that a read had stored has failed: the key is absent,
\* the series it held is not back
C25_Witness ==
    /\ FailedRefresh
    /\ now = 0
    /\ \E i \in DOMAIN setLog :
          setLog[i].key = KeyOf(response.query) /\ setLog[i].rid < response.rid
    /\ KeyOf(response.query) \notin DOMAIN cache

\* a refresh that started after the request r has stored under key already
RefreshedSince(r, key) ==
    \E i \in DOMAIN setLog :
        /\ setLog[i].route = "refresh"
        /\ setLog[i].key = key
        /\ setLog[i].rid > r

\* C26 as stated: once a refresh has stored under a key, a read whose
\* fetches were issued before the refresh's does not store under that key.
C26_Original ==
    [][\A r \in DOMAIN inflight :
          (Resumes(r) /\ response'.route = "klines"
                      /\ RefreshedSince(r, KeyOf(response'.query)))
          => setLog' = setLog /\ cache' = cache]_vars

\* C26: stores under one key are not ordered by the start of their
\* requests: every computation that ends stores its own series under its
\* key, a read that started before a refresh and ends after it included,
\* and the entry is then the series of whichever request stored last.
C26_LateReadOverwritesRefresh ==
    [][\A r \in DOMAIN inflight :
          Resumes(r)
          => /\ setLog' = Append(setLog, [rid |-> r, route |-> response'.route,
                                          key |-> KeyOf(response'.query)])
             /\ cache'[KeyOf(response'.query)] =
                    [v |-> response'.klines,
                     t |-> Livetime(now, GetTTL(IntervalOf(response'.query)))]
             /\ OtherKeysUnchanged(KeyOf(response'.query))]_vars

\* a refresh started after a read and stored first; the read then ended
\* with the empty series and the entry is the read's
C26_Witness ==
    /\ Len(setLog) = 2
    /\ setLog[1].route = "refresh"
    /\ setLog[2].route = "klines"
    /\ setLog[2].rid < setLog[1].rid
    /\ setLog[2].key = setLog[1].key
    /\ response.rid = setLog[2].rid
    /\ response.klines = <<>>
    /\ now = 0
    /\ cache[setLog[2].key].v = <<>>

(***************************************************************************)
(* SpecRead: sets and gets of CacheManager next to the operations that     *)
(* only report: getStats, GET /health, GET /api/symbols and                *)
(* GET /api/cache/stats.                                                   *)
(***************************************************************************)
ReadTuples ==
    {[coinA |-> "BTC", coinB |-> "ETH", interval |-> "1m"],
     [coinA |-> "ETH", coinB |-> "BTC", interval |-> "3m"]}

\* NodeCache's getStats, as far as it tells of the entries: their number
CacheStats(c) == [keys |-> Cardinality(DOMAIN c)]

CallGetStats ==
    /\ started < MaxRequests
    /\ started' = started + 1
    /\ lastCall' = [op |-> "getStats", at |-> now, result |-> CacheStats(cache)]
    /\ UNCHANGED <<cache, now, inflight, response, setLog>>
    /\ UNCHANGED joinVars
    /\ UNCHANGED pageVars

\* a response of a route that has no query and awaits nothing of the cache
Report(route, body) ==
    [rid |-> started + 1, route |-> route, query |-> <<>>, hit |-> FALSE,
     fetches |-> <<>>, got |-> <<>>, klines |-> <<>>, body |-> body]

GetHealth ==
    /\ started < MaxRequests
    /\ started' = started + 1
    /\ response' = Report("health", [status |-> 200, health |-> "healthy",
                                     cache |-> CacheStats(cache)])
    /\ lastCall' = [op |-> "getStats", at |-> now, result |-> CacheStats(cache)]
    /\ UNCHANGED <<cache, now, inflight, setLog>>
    /\ UNCHANGED joinVars
    /\ UNCHANGED pageVars

\* GET /api/symbols with the answer of getExchangeInfo, a list of symbols or
\* a failure; the handler touches nothing of the server while it waits
GetSymbols ==
    /\ started < MaxRequests
    /\ started' = started + 1
    /\ \E body \in {[status |-> 200, success |-> TRUE, count |-> 3,
                     coins |-> <<"BTC", "ETH", "USDT">>],
                    ServerError("Failed to fetch symbols: "
                                \o "Request failed with status code 429")} :
          response' = Report("symbols", body)
    /\ UNCHANGED <<cache, now, inflight, setLog>>
    /\ UNCHANGED joinVars
    /\ UNCHANGED lastCall
    /\ UNCHANGED pageVars

GetCacheStats ==
    /\ started < MaxRequests
    /\ started' = started + 1
    /\ response' = Report("stats", [status |-> 200, success |-> TRUE,
                                    stats |-> CacheStats(cache)])
    /\ lastCall' = [op |-> "getStats", at |-> now, result |-> CacheStats(cache)]
    /\ UNCHANGED <<cache, now, inflight, setLog>>
    /\ UNCHANGED joinVars
    /\ UNCHANGED pageVars

ReadSetCall ==
    \E x \in ReadTuples, data \in CacheValues :
        CallSet(x.coinA, x.coinB, x.interval, data)

ReadGetCall == \E x \in ReadTuples : CallGet(x.coinA, x.coinB, x.interval)

ReadNext ==
    \/ ReadSetCall
    \/ ReadGetCall
    \/ CallGetStats
    \/ GetHealth
    \/ GetSymbols
    \/ GetCacheStats
    \/ Tick
    \/ CheckData

SpecRead == Init /\ [][ReadNext]_vars

\* this step is one of the reporting routes
Reports == response'.rid = started' /\ response'.rid # response.rid
           /\ response'.route \in {"health", "symbols", "stats"}

\* the entries that a get can return are the same before and after the step
LiveEntriesUnchanged ==
    /\ \A key \in DOMAIN cache :
          CacheHolds(cache, key, now)
          => key \in DOMAIN cache' /\ cache'[key] = cache[key]
    /\ \A key \in DOMAIN cache' :
          key \in DOMAIN cache /\ cache'[key] = cache[key]

IntervalOrder ==
    <<"1m", "3m", "5m", "15m", "30m", "1h", "2h", "4h", "6h", "8h", "12h",
      "1d", "3d", "1w", "1M">>

\* the seconds one bar of the granularity spans, the shortest month for "1M"
BarSeconds(interval) ==
    CASE interval = "1m"  -> 60
      [] interval = "3m"  -> 3 * 60
      [] interval = "5m"  -> 5 * 60
      [] interval = "15m" -> 15 * 60
      [] interval = "30m" -> 30 * 60
      [] interval = "1h"  -> 3600
      [] interval = "2h"  -> 2 * 3600
      [] interval = "4h"  -> 4 * 3600
      [] interval = "6h"  -> 6 * 3600
      [] interval = "8h"  -> 8 * 3600
      [] interval = "12h" -> 12 * 3600
      [] interval = "1d"  -> 86400
      [] interval = "3d"  -> 3 * 86400
      [] interval = "1w"  -> 7 * 86400
      [] interval = "1M"  -> 28 * 86400

\* C28: for every supported granularity the TTL is a number of seconds that
\* is at most the span of one bar, and from the finest granularity to the
\* coarsest the TTL never decreases; so an entry that a get still returns
\* was set at most one bar span ago.
C28_TTLWithinOneBar ==
    /\ Range(IntervalOrder) = SupportedIntervals
    /\ \A i, j \in DOMAIN IntervalOrder :
          i < j => /\ BarSeconds(IntervalOrder[i]) < BarSeconds(IntervalOrder[j])
                   /\ GetTTL(IntervalOrder[i]) <= GetTTL(IntervalOrder[j])
    /\ (lastCall.op = "getTTL" /\ lastCall.interval \in SupportedIntervals)
          => /\ lastCall.result = GetTTL(lastCall.interval)
             /\ lastCall.result > 0
             /\ lastCall.result <= BarSeconds(lastCall.interval)
    /\ \A interval \in SupportedIntervals :
          LET key == generateKey("BTC", "ETH", interval) IN
          CacheHolds(cache, key, now)
          => now - (cache[key].t - GetTTL(interval)) <= BarSeconds(interval)

\* a series set at 0 for "1m" is still held at 60, one bar span later
C28_Witness ==
    /\ lastCall.op = "set"
    /\ lastCall.interval = "1m"
    /\ lastCall.at = 0
    /\ now = BarSeconds("1m")
    /\ CacheHolds(cache, CallKey(lastCall), now)
    /\ cache[CallKey(lastCall)].v = lastCall.data

\* the calls of loadChartData that passed the validation
Validated == {id \in DOMAIN loads : loads[id].pc # "returned"}

\* the most recently started of them
LastLoad == CHOOSE id \in Validated : \A other \in Validated : other <= id

\* C29: once no load awaits a response any more and the most recently
\* started load has ended with a response, currentData, the candles of the
\* chart and the statistics are those of that load's pair and interval.
C29_LastStartedLoadShown ==
    (/\ Validated # {}
     /\ \A id \in DOMAIN loads : ~Awaiting(loads[id])
     /\ loads[LastLoad].pc = "done")
    => /\ currentData # Null
       /\ currentData.pair = loads[LastLoad].coinA \o "/" \o loads[LastLoad].coinB
       /\ currentData.interval = loads[LastLoad].interval
       /\ chart.candles = currentData
       /\ statPair = currentData.pair

\* C30: the loading overlay is visible exactly while some validated call of
\* loadChartData awaits a response, and the refresh button is disabled
\* exactly while the load of a refresh click awaits one.
C30_OverlayWhileLoading ==
    /\ ~loadingOverlay.hidden <=> \E id \in DOMAIN loads : Awaiting(loads[id])
    /\ refreshBtn.disabled <=>
           \E id \in DOMAIN loads : Awaiting(loads[id]) /\ loads[id].forceRefresh

====
